---- MODULE Spec2Model ----
(***************************************************************************)
(* TMap (src/TriangularMap/tmap.py): a wrapper around a 1D array that      *)
(* gives access in triangular (start, end) coordinates.                    *)
(*                                                                         *)
(* The model covers the numpy ndarray backend.  Spec wraps buffers of      *)
(* scalar elements (value_shape = ()), PayloadSpec buffers of elements of  *)
(* one axis.  The heap `mem` holds the storage of the arrays;              *)
(* an ndarray is a window on one storage (its buffer and the positions it  *)
(* shows), so that a view and a copy are different things in the model.    *)
(* Linear indices are 0-based as in the source; TLA+ sequences are         *)
(* 1-based, so position i of a buffer b is mem[b][i + 1].                  *)
(***************************************************************************)
EXTENDS Integers, Sequences, FiniteSets, TLC

\* ---------------------------------------------------------------- bounds
\* widest container the initial state wraps
MaxWidth == 3
\* longest array handed to the constructor by a later TMap(arr) call
MaxLen == 7
\* number of writes to the container by a caller that holds no object of an
\* earlier call (a caller that holds one writes once more, see Holding)
MaxWrites == 1
\* largest step of a slice start:end:step
MaxStep == 2
\* length of an element of a buffer of shape (N, PayloadLen)
PayloadLen == 2
\* longest sequence of sets by a caller that only sets and reads elements
MaxSets == 2

VARIABLES mem, tm, res, exc, call, writes

vars == <<mem, tm, res, exc, call, writes>>

\* ------------------------------------------------------- python / numpy
Max(a, b) == IF a >= b THEN a ELSE b

Min(a, b) == IF a <= b THEN a ELSE b

\* np.arange(a, b)
arange(a, b) == [i \in 1..Max(b - a, 0) |-> a + i - 1]

\* the sequence s in reverse order (np.flip, reversed)
Reverse(s) == [i \in 1..Len(s) |-> s[Len(s) + 1 - i]]

\* np.flip(s) of an array of elements of shape value_shape: with no axis given it
\* reverses every axis, the first one and the axes of the elements (one at most
\* here)
np_flip(s, value_shape) ==
    IF value_shape = <<>> THEN Reverse(s)
    ELSE [i \in 1..Len(s) |-> Reverse(s[Len(s) + 1 - i])]

\* the value of a one-element set: {F(v) : v \in {x}} computes x once, as the
\* assignment to a local variable does, and F uses its value
Only(S) == CHOOSE r \in S : TRUE

\* the concatenation of a sequence of sequences
RECURSIVE Concat(_)
Concat(ss) ==
    Only({IF v = <<>> THEN <<>> ELSE Head(v) \o Concat(Tail(v)) : v \in {ss}})

\* an optional argument: None, or a given number
None == <<>>

Some(x) == <<x>>

\* bounds of s[start:stop:step] for step > 0, as slice.indices(len) computes them
SliceLo(len, start) ==
    IF start = None THEN 0
    ELSE IF start[1] < 0 THEN Max(start[1] + len, 0) ELSE Min(start[1], len)

SliceHi(len, stop) ==
    IF stop = None THEN len
    ELSE IF stop[1] < 0 THEN Max(stop[1] + len, 0) ELSE Min(stop[1], len)

\* the 0-based positions s[start:stop:step] selects in a sequence of length len
SlicePositions(len, start, stop, step) ==
    LET lo == SliceLo(len, start)
        hi == SliceHi(len, stop)
        st == IF step = None THEN 1 ELSE step[1]
        cnt == IF hi > lo THEN (hi - lo + st - 1) \div st ELSE 0
    IN [i \in 1..cnt |-> lo + (i - 1) * st]

\* s[start:stop:step] of a sequence
PySlice(s, start, stop, step) ==
    LET p == SlicePositions(Len(s), start, stop, step)
    IN [i \in 1..Len(p) |-> s[p[i] + 1]]

\* an integer index or an integer index array: nd tells an np.ndarray from a number
Scalar(i) == [nd |-> FALSE, v |-> <<i>>]

Array(s) == [nd |-> TRUE, v |-> s]

\* numpy broadcasting of a number against an array of length k
Broadcast(x, k) == IF x.nd THEN x.v ELSE [i \in 1..k |-> x.v[1]]

\* common length of two broadcast operands
BLen(x, y) == IF x.nd THEN Len(x.v) ELSE IF y.nd THEN Len(y.v) ELSE 1

\* an ndarray: the storage it shows (buf), the positions of that storage it shows
\* (idx, in C order) and its shape
NdArray(b, positions, shp) == [buf |-> b, idx |-> positions, shape |-> shp]

\* len(arr)
PyLen(a) == a.shape[1]

\* the elements an ndarray shows, in C order
Content(m, a) == [i \in 1..Len(a.idx) |-> m[a.buf][a.idx[i] + 1]]

\* a new array that owns its storage: the heap keeps the container's buffer (1)
\* and the newest result's buffer (2); an older result is garbage by then
Alloc(m, elems, shp) ==
    [mem |-> <<m[1], elems>>, arr |-> NdArray(2, arange(0, Len(elems)), shp)]

\* arr[a:b:step] on a 1D ndarray: a view on the same storage
BasicSlice(a, start, stop, step) ==
    LET p == SlicePositions(Len(a.idx), start, stop, step)
    IN NdArray(a.buf, [i \in 1..Len(p) |-> a.idx[p[i] + 1]], <<Len(p)>>)

\* numpy's integer index i into an axis of length len: negative indices wrap
WrapIndex(len, i) == IF i < 0 THEN i + len ELSE i

IndexInRange(len, i) == -len <= i /\ i < len

\* outcomes: the exception raised ("none" when the call returned)
NoExc == "none"

\* results
NoRes == [kind |-> "none"]

ValueRes(x) == [kind |-> "value", val |-> x]

ArrayRes(a) == [kind |-> "array", arr |-> a]

TMapRes(t) == [kind |-> "tmap", tmap |-> t]

Raise(m, e) == [exc |-> e, res |-> NoRes, mem |-> m]

Return(m, r) == [exc |-> NoExc, res |-> r, mem |-> m]

\* ------------------------------------------------------ index arithmetic
\* int() of the float num / den: truncation towards zero
to_int(num, den) ==
    IF num >= 0 THEN num \div den ELSE -((-num) \div den)

size1d_from_n(n) == to_int(n * (n + 1), 2)

\* floor(sqrt(x)) for x >= 0
ISqrt(x) == CHOOSE r \in 0..x : r * r <= x /\ (r + 1) * (r + 1) > x

\* np.floor(n) for n = (np.sqrt(8 * N + 1) - 1) / 2; for an integer root r of the
\* floor of the square root, floor((sqrt(x) - 1) / 2) = floor((r - 1) / 2)
FloorWidth(N) == (ISqrt(8 * N + 1) - 1) \div 2

\* mutant of n_from_size1d: the size is not validated
n_from_size1d_unchecked(N) == [exc |-> NoExc, n |-> to_int(FloorWidth(N), 1)]

n_from_size1d(N) ==
    IF size1d_from_n(FloorWidth(N)) # N
    THEN [exc |-> "ValueError", n |-> 0]
    ELSE [exc |-> NoExc, n |-> to_int(FloorWidth(N), 1)]

\* TMap.__init__: the container around arr, or the ValueError of n_from_size1d
TMapInit(arr, linearise_blocks) ==
    LET w == n_from_size1d(PyLen(arr))
    IN [exc |-> w.exc,
        tmap |-> [n |-> w.n, arr |-> arr, value_shape |-> Tail(arr.shape),
                  linearise_blocks |-> linearise_blocks]]

\* mutant of check_raises: end < n, as the docstring of _check words it
check_raises_strict(t, start, end) ==
    LET k == BLen(start, end)
        S == Broadcast(start, k)
        E == Broadcast(end, k)
    IN ~(\A i \in 1..k : S[i] < E[i] /\ 0 <= S[i] /\ E[i] < t.n)

\* TMap._check: whether it raises IndexError
check_raises(t, start, end) ==
    IF start.nd \/ end.nd
    THEN LET k == BLen(start, end)
             S == Broadcast(start, k)
             E == Broadcast(end, k)
             c == [i \in 1..k |-> S[i] < E[i] /\ 0 <= S[i] /\ E[i] <= t.n]
         IN ~(\A i \in 1..k : c[i])
    ELSE ~(0 <= start.v[1] /\ start.v[1] < end.v[1] /\ end.v[1] <= t.n)

depth(t, start, end) == to_int(t.n - (end - start), 1)

level(t, d) == t.n - d

\* mutant of linear_from_start_end: the level is not subtracted
linear_from_start_end_no_level(t, start, end) ==
    LET d == depth(t, start, end)
    IN to_int(d * (d + 1) + 2 * end, 2)

linear_from_start_end(t, start, end) ==
    LET d == depth(t, start, end)
        l == level(t, d)
    IN to_int(d * (d + 1) + 2 * (end - l), 2)

\* linear_from_start_end on index arrays (element-wise, with broadcasting)
linear_indices(t, start, end) ==
    LET k == BLen(start, end)
        S == Broadcast(start, k)
        E == Broadcast(end, k)
    IN [i \in 1..k |-> linear_from_start_end(t, S[i], E[i])]

\* ------------------------------------------------------- element access
\* self.arr[linear_idx] for a number: the element, or numpy's IndexError
ArrGet(m, a, i) ==
    IF ~IndexInRange(Len(a.idx), i) THEN Raise(m, "IndexError")
    ELSE Return(m, ValueRes(m[a.buf][a.idx[WrapIndex(Len(a.idx), i) + 1] + 1]))

\* mutant of ArrGather: advanced indexing returns a view on the indexed storage
ArrGather_view(m, a, li, shp) ==
    IF \E i \in 1..Len(li) : ~IndexInRange(Len(a.idx), li[i]) THEN Raise(m, "IndexError")
    ELSE Return(m, ArrayRes(NdArray(a.buf,
                    [i \in 1..Len(li) |-> a.idx[WrapIndex(Len(a.idx), li[i]) + 1]], shp)))

\* self.arr[linear_idx] for an index array: advanced indexing gathers a new array
ArrGather(m, a, li, shp) ==
    IF \E i \in 1..Len(li) : ~IndexInRange(Len(a.idx), li[i]) THEN Raise(m, "IndexError")
    ELSE LET elems == [i \in 1..Len(li) |->
                          m[a.buf][a.idx[WrapIndex(Len(a.idx), li[i]) + 1] + 1]]
             new == Alloc(m, elems, shp)
         IN Return(new.mem, ArrayRes(new.arr))

\* the storage after positions ps (0-based) of buffer b received the values xs,
\* in order (a later assignment to the same position wins)
RECURSIVE Store(_, _, _, _)
Store(m, b, ps, xs) ==
    IF ps = <<>> THEN m
    ELSE Store([m EXCEPT ![b][Head(ps) + 1] = Head(xs)], b, Tail(ps), Tail(xs))

\* mutant of ArrSet: the first cell of the array is written as well
ArrSet_first_too(m, a, li, value) ==
    IF \E i \in 1..Len(li) : ~IndexInRange(Len(a.idx), li[i]) THEN Raise(m, "IndexError")
    ELSE Return(Store(m, a.buf,
                      <<a.idx[1]>> \o [i \in 1..Len(li) |-> a.idx[WrapIndex(Len(a.idx), li[i]) + 1]],
                      [i \in 1..(Len(li) + 1) |-> value]),
                NoRes)

\* self.arr[linear_idx] = value for a number or an index array (value is broadcast)
ArrSet(m, a, li, value) ==
    IF \E i \in 1..Len(li) : ~IndexInRange(Len(a.idx), li[i]) THEN Raise(m, "IndexError")
    ELSE Return(Store(m, a.buf,
                      [i \in 1..Len(li) |-> a.idx[WrapIndex(Len(a.idx), li[i]) + 1]],
                      [i \in 1..Len(li) |-> value]),
                NoRes)

\* TMap.__getitem__ with item = (start, end)
getitem(t, m, start, end) ==
    IF check_raises(t, start, end) THEN Raise(m, "IndexError")
    ELSE LET li == linear_indices(t, start, end)
         IN IF start.nd \/ end.nd
            THEN ArrGather(m, t.arr, li, <<Len(li)>> \o t.value_shape)
            ELSE ArrGet(m, t.arr, li[1])

\* mutant of setitem: the valid pairs are written before the check raises
setitem_write_first(t, m, start, end, value) ==
    LET k == BLen(start, end)
        S == Broadcast(start, k)
        E == Broadcast(end, k)
        ok == SelectSeq([i \in 1..k |-> <<S[i], E[i]>>],
                        LAMBDA p : 0 <= p[1] /\ p[1] < p[2] /\ p[2] <= t.n)
        w == ArrSet(m, t.arr,
                    [i \in 1..Len(ok) |-> linear_from_start_end(t, ok[i][1], ok[i][2])],
                    value)
    IN IF check_raises(t, start, end) THEN Raise(w.mem, "IndexError") ELSE w

\* TMap.__setitem__
setitem(t, m, start, end, value) ==
    IF check_raises(t, start, end) THEN Raise(m, "IndexError")
    ELSE ArrSet(m, t.arr, linear_indices(t, start, end), value)

\* ------------------------------------------------------- views, slices
\* mutant of copy: the new container wraps the same array
copy_shared(t, m) ==
    LET c == TMapInit(t.arr, t.linearise_blocks)
    IN IF c.exc # NoExc THEN Raise(m, c.exc) ELSE Return(m, TMapRes(c.tmap))

\* TMap.copy for an ndarray buffer: self.arr.copy(), then TMap(arr=copy, ...)
copy(t, m) ==
    LET new == Alloc(m, Content(m, t.arr), t.arr.shape)
        c == TMapInit(new.arr, t.linearise_blocks)
    IN IF c.exc # NoExc THEN Raise(m, c.exc) ELSE Return(new.mem, TMapRes(c.tmap))

\* TMap.linear_start_end_from_level
linear_start_end_from_level(t, lvl) ==
    [linear_start |-> linear_from_start_end(t, 0, lvl),
     linear_end |-> linear_from_start_end(t, t.n - lvl, t.n)]

\* mutant of top: the prefix is copied
top_copy(t, m, d) ==
    IF d = None THEN Return(m, TMapRes(t))
    ELSE LET se == linear_start_end_from_level(t, level(t, d[1] - 1))
             v == BasicSlice(t.arr, None, Some(se.linear_end + 1), None)
             new == Alloc(m, Content(m, v), v.shape)
             c == TMapInit(new.arr, t.linearise_blocks)
         IN IF c.exc # NoExc THEN Raise(m, c.exc) ELSE Return(new.mem, TMapRes(c.tmap))

\* TMap.top: self when depth is None, else a TMap around the view arr[:end + 1]
top(t, m, d) ==
    IF d = None THEN Return(m, TMapRes(t))
    ELSE LET se == linear_start_end_from_level(t, level(t, d[1] - 1))
             c == TMapInit(BasicSlice(t.arr, None, Some(se.linear_end + 1), None),
                           t.linearise_blocks)
         IN IF c.exc # NoExc THEN Raise(m, c.exc) ELSE Return(m, TMapRes(c.tmap))

\* mutant of lslice: the view arr[linear_start:linear_end]
lslice_short(t, lvl) ==
    LET se == linear_start_end_from_level(t, lvl)
    IN BasicSlice(t.arr, Some(se.linear_start), Some(se.linear_end), None)

\* TMap.lslice: the view arr[linear_start:linear_end + 1]
lslice(t, lvl) ==
    LET se == linear_start_end_from_level(t, lvl)
    IN BasicSlice(t.arr, Some(se.linear_start), Some(se.linear_end + 1), None)

\* TMap.dslice
dslice(t, d) == lslice(t, level(t, d))

end_indices_for_sslice(t, start) == arange(start + 1, t.n + 1)

start_indices_for_eslice(t, end) == arange(0, end)

\* TMap.get_sslice for item = start (no further indices)
get_sslice(t, m, start) ==
    getitem(t, m, Scalar(start), Array(end_indices_for_sslice(t, start)))

\* TMap.get_eslice for item = end (no further indices)
get_eslice(t, m, end) ==
    getitem(t, m, Array(start_indices_for_eslice(t, end)), Scalar(end))

\* np.concatenate(columns, axis=1) of columns of shape (k, 1): the rows of the
\* (k, len(columns)) grid, or ValueError for no column or columns of unequal length
ConcatColumns(cols) ==
    IF cols = <<>> \/ (\E i \in 1..Len(cols) : Len(cols[i]) # Len(cols[1]))
    THEN [exc |-> "ValueError", rows |-> <<>>]
    ELSE [exc |-> NoExc,
          rows |-> [r \in 1..Len(cols[1]) |-> [c \in 1..Len(cols) |-> cols[c][r]]]]

\* the gather of a block: arr[linear_indices], or with linearise_blocks the gather
\* of the flattened indices reshaped to the grid's shape
BlockGather(t, m, rows, ncols) ==
    IF t.linearise_blocks
    THEN LET g == ArrGather(m, t.arr, Concat(rows), <<Len(rows) * ncols>> \o t.value_shape)
         IN IF g.exc # NoExc THEN g
            ELSE Return(g.mem, ArrayRes([g.res.arr EXCEPT
                                            !.shape = <<Len(rows), ncols>> \o t.value_shape]))
    ELSE ArrGather(m, t.arr, Concat(rows), <<Len(rows), ncols>> \o t.value_shape)

\* the linear indices of TMap.get_sblock / set_sblock for item = level
sblock_indices(t, lvl) ==
    LET start_indices == arange(0, t.n - lvl + 1)
        g == ConcatColumns([c \in 1..Len(start_indices) |->
                 Reverse(PySlice(end_indices_for_sslice(t, start_indices[c]),
                                 None, Some(lvl), None))])
    IN [exc |-> g.exc, ncols |-> Len(start_indices),
        rows |-> [r \in 1..Len(g.rows) |-> [c \in 1..Len(start_indices) |->
                     linear_from_start_end(t, start_indices[c], g.rows[r][c])]]]

\* TMap.get_sblock for item = level
get_sblock(t, m, lvl) ==
    LET li == sblock_indices(t, lvl)
    IN IF li.exc # NoExc THEN Raise(m, li.exc) ELSE BlockGather(t, m, li.rows, li.ncols)

\* whether numpy assigns a value of shape vshape to an indexing result of shape
\* tshape: the value's leading axes of length 1 are dropped, then each of its axes
\* has the length of the target's axis, from the last one backwards, or length 1
RECURSIVE CanAssign(_, _)
CanAssign(tshape, vshape) ==
    IF Len(vshape) > Len(tshape)
    THEN vshape[1] = 1 /\ CanAssign(tshape, Tail(vshape))
    ELSE \A i \in 1..Len(vshape) :
            vshape[i] \in {1, tshape[Len(tshape) - Len(vshape) + i]}

\* TMap.set_sblock for key = level and a value that is a grid of scalars of the
\* shape of the block (a sequence of rows): self.arr[index] = value, index the
\* flattened linear indices with linearise_blocks and the grid of linear indices
\* without
set_sblock(t, m, lvl, value) ==
    LET li == sblock_indices(t, lvl)
        flat == Concat(li.rows)
        tshape == IF t.linearise_blocks THEN <<Len(flat)>> ELSE <<Len(li.rows), li.ncols>>
        vshape == <<Len(value), IF value = <<>> THEN 0 ELSE Len(value[1])>>
    IN IF li.exc # NoExc THEN Raise(m, li.exc)
       ELSE IF ~CanAssign(tshape, vshape) THEN Raise(m, "ValueError")
       ELSE Return(Store(m, t.arr.buf, [i \in 1..Len(flat) |-> t.arr.idx[flat[i] + 1]],
                         Concat(value)),
                   NoRes)

\* the linear indices of TMap.get_eblock / set_eblock for item = level
eblock_indices(t, lvl) ==
    LET end_indices == arange(lvl, t.n + 1)
        g == ConcatColumns([c \in 1..Len(end_indices) |->
                 PySlice(start_indices_for_eslice(t, end_indices[c]), Some(-lvl), None, None)])
    IN [exc |-> g.exc, ncols |-> Len(end_indices),
        rows |-> [r \in 1..Len(g.rows) |-> [c \in 1..Len(end_indices) |->
                     linear_from_start_end(t, g.rows[r][c], end_indices[c])]]]

\* TMap.get_eblock for item = level
get_eblock(t, m, lvl) ==
    LET li == eblock_indices(t, lvl)
    IN IF li.exc # NoExc THEN Raise(m, li.exc) ELSE BlockGather(t, m, li.rows, li.ncols)

\* mutant of getslice: each row segment is one element short
getslice_narrow(t, m, start, end, step) ==
    LET start_depth == depth(t, start, end)
        ds == arange(start_depth, t.n)
        arr_tuple == [k \in 1..Len(ds) |->
                         Content(m, BasicSlice(dslice(t, ds[k]), Some(start),
                                       Some(start + (ds[k] - start_depth)), step))]
    IN IF arr_tuple = <<>> THEN Raise(m, "ValueError")
       ELSE LET new == Alloc(m, Concat(arr_tuple),
                             <<Len(Concat(arr_tuple))>> \o t.value_shape)
                c == TMapInit(new.arr, t.linearise_blocks)
            IN IF c.exc # NoExc THEN Raise(m, c.exc)
               ELSE Return(new.mem, TMapRes(c.tmap))

\* TMap.__getitem__ with item = slice(start, end, step): the sub-map
getslice(t, m, start, end, step) ==
    LET start_depth == depth(t, start, end)
        ds == arange(start_depth, t.n)
        arr_tuple == [k \in 1..Len(ds) |->
                         Content(m, BasicSlice(dslice(t, ds[k]), Some(start),
                                       Some(start + (ds[k] - start_depth) + 1), step))]
    IN IF arr_tuple = <<>> THEN Raise(m, "ValueError")
       ELSE LET new == Alloc(m, Concat(arr_tuple),
                             <<Len(Concat(arr_tuple))>> \o t.value_shape)
                c == TMapInit(new.arr, t.linearise_blocks)
            IN IF c.exc # NoExc THEN Raise(m, c.exc)
               ELSE Return(new.mem, TMapRes(c.tmap))

\* ----------------------------------------------------------------- flatten
\* TMap.flatten_regex, "^([+-]?)([sel])([+-]?)([sel])$", matched against a string
\* given as its sequence of characters; $ also matches before a final newline
flatten_regex_match(order) ==
    LET Sign(i) == IF i <= Len(order) /\ order[i] \in {"+", "-"} THEN order[i] ELSE ""
        o == 1 + Len(Sign(1))
        i == o + 1 + Len(Sign(o + 1))
        IsDim(k) == k <= Len(order) /\ order[k] \in {"s", "e", "l"}
        AtEnd(k) == k = Len(order) + 1 \/ (k = Len(order) /\ order[k] = "\n")
    IN IF IsDim(o) /\ IsDim(i) /\ AtEnd(i + 1)
       THEN [matched |-> TRUE, outer_sign |-> Sign(1), outer |-> order[o],
             inner_sign |-> Sign(o + 1), inner |-> order[i]]
       ELSE [matched |-> FALSE]

\* the outer slices flatten collects: each one's elements, or the exception of
\* the first slice that raised one
outer_slices(t, m, outer_dim) ==
    LET Collected(got) ==
            LET bad == {k \in 1..Len(got) : got[k].exc # NoExc}
            IN IF bad # {}
               THEN [exc |-> got[CHOOSE k \in bad : \A j \in bad : k <= j].exc,
                     slices |-> <<>>]
               ELSE [exc |-> NoExc,
                     slices |-> [k \in 1..Len(got) |->
                                    Content(got[k].mem, got[k].res.arr)]]
    IN Only({Collected(got) :
                got \in {IF outer_dim = "s"
                         THEN [k \in 1..t.n |-> get_sslice(t, m, k - 1)]
                         ELSE IF outer_dim = "e"
                         THEN [k \in 1..t.n |-> get_eslice(t, m, k)]
                         ELSE [k \in 1..t.n |-> Return(m, ArrayRes(lslice(t, k)))]}})

\* TMap.flatten
flatten(t, m, order) ==
    LET match == flatten_regex_match(order)
        Signed(o) == IF match.outer_sign = "-" THEN Reverse(o.slices) ELSE o.slices
        Inner(signed) == IF match.inner_sign = "-"
                         THEN [k \in 1..Len(signed) |-> np_flip(signed[k], t.value_shape)]
                         ELSE signed
        Cat(flat) == LET new == Alloc(m, flat, <<Len(flat)>> \o t.value_shape)
                     IN Return(new.mem, ArrayRes(new.arr))
        Collect(o) == IF o.exc # NoExc THEN Raise(m, o.exc)
                      ELSE IF o.slices = <<>> THEN Raise(m, "ValueError")
                      ELSE Only({Cat(flat) : flat \in {Concat(Inner(Signed(o)))}})
    IN IF ~match.matched THEN Raise(m, "ValueError")
       ELSE IF <<match.outer, match.inner>> \notin {<<"s", "e">>, <<"e", "s">>, <<"l", "s">>}
       THEN Raise(m, "ValueError")
       ELSE Only({Collect(o) : o \in {outer_slices(t, m, match.outer)}})

\* ---------------------------------------------------------------- state
\* the container wraps np.arange(N) for a valid size N
Init ==
    /\ \E w \in 0..MaxWidth, lb \in BOOLEAN :
          LET N == size1d_from_n(w)
              c == TMapInit(NdArray(1, arange(0, N), <<N>>), lb)
          IN /\ c.exc = NoExc
             /\ tm = c.tmap
             /\ mem = <<arange(0, N)>>
    /\ res = NoRes
    /\ exc = NoExc
    /\ call = [op |-> "init"]
    /\ writes = 0

\* the heap without the result of the previous call
Live(m) == <<m[1]>>

\* coordinates a caller passes: the valid range and one step beyond it on each side
Coords == -1..(tm.n + 1)

\* an optional coordinate
OptCoords == {None} \cup {Some(c) : c \in Coords}

\* slice steps a caller passes
Steps == {None} \cup {Some(k) : k \in 1..MaxStep}

Signs == {<<>>, <<"+">>, <<"-">>}

Dims == {<<"s">>, <<"e">>, <<"l">>}

\* order strings a caller passes to flatten: every [sign]dim[sign]dim and some
\* strings of another form
Orders ==
    {a \o b \o c \o d : a \in Signs, b \in Dims, c \in Signs, d \in Dims}
    \cup {<<>>, <<"s">>, <<"s", "e", "l">>, <<"+", "+", "s", "e">>,
          <<"s", "e", "+">>, <<"x", "s", "e">>, <<"s", "e", "\n">>}

\* the value of the next write: the initial buffer is np.arange(N), and the writes
\* write 100, 101, ... so that no two writes write the same value
NewVal == 100 + writes

\* the caller holds no object of an earlier call and nothing was raised: the
\* initial state, or the state after a write that succeeded
Idle == res.kind = "none" /\ exc = NoExc

\* the calls that write
WriteOps == {"setitem", "setitems", "array_write", "sub_setitem", "set_sblock"}

\* the caller holds the array or the container that the last call returned
Holding == res.kind \in {"array", "tmap"} /\ exc = NoExc /\ call.op \notin WriteOps

\* the call that returned the object the caller holds
Origin == IF Holding THEN call ELSE [op |-> "none"]

\* a call on the container returned or raised: its outcome replaces the last one.
\* Such a call reads the container's buffer and nothing else, so it is taken from
\* the idle states only (from a state where the caller holds a result it would end
\* in the same state), and, tm[start, end] apart, before the first write
Called(r, c) ==
    /\ Idle
    /\ c.op # "getitem" => writes = 0
    /\ mem' = r.mem
    /\ res' = r.res
    /\ exc' = r.exc
    /\ call' = c
    /\ UNCHANGED <<tm, writes>>

\* TMap(np.arange(N))
Construct ==
    \E N \in 0..MaxLen :
        LET new == Alloc(Live(mem), arange(0, N), <<N>>)
            c == TMapInit(new.arr, FALSE)
        IN Called(IF c.exc # NoExc THEN Raise(Live(mem), c.exc)
                  ELSE Return(new.mem, TMapRes(c.tmap)),
                  [op |-> "TMap", N |-> N])

\* tm[start, end]
GetItem ==
    \E s \in Coords, e \in Coords :
        Called(getitem(tm, Live(mem), Scalar(s), Scalar(e)),
               [op |-> "getitem", start |-> s, end |-> e])

\* tm[starts, end] for an index array starts
GetItems ==
    \E s1 \in Coords, s2 \in Coords, e \in Coords :
        Called(getitem(tm, Live(mem), Array(<<s1, s2>>), Scalar(e)),
               [op |-> "getitems", starts |-> <<s1, s2>>, ends |-> <<e, e>>])

\* tm[start:end:step]
GetSlice ==
    \E s \in Coords, e \in Coords, st \in Steps :
        Called(getslice(tm, Live(mem), s, e, st),
               [op |-> "getslice", start |-> s, end |-> e, step |-> st])

\* tm.copy()
Copy == Called(copy(tm, Live(mem)), [op |-> "copy"])

\* tm.top(depth)
Top ==
    \E d \in OptCoords :
        Called(top(tm, Live(mem), d), [op |-> "top", depth |-> d])

\* tm.lslice(level)
LSlice ==
    \E l \in Coords :
        Called(Return(Live(mem), ArrayRes(lslice(tm, l))), [op |-> "lslice", level |-> l])

\* tm.dslice(depth)
DSlice ==
    \E d \in Coords :
        Called(Return(Live(mem), ArrayRes(dslice(tm, d))), [op |-> "dslice", depth |-> d])

\* tm.sslice[start]
SSlice ==
    \E s \in Coords :
        Called(get_sslice(tm, Live(mem), s), [op |-> "sslice", start |-> s])

\* tm.eslice[end]
ESlice ==
    \E e \in Coords :
        Called(get_eslice(tm, Live(mem), e), [op |-> "eslice", end |-> e])

\* tm.sblock[level]
SBlock ==
    \E l \in Coords :
        Called(get_sblock(tm, Live(mem), l), [op |-> "sblock", level |-> l])

\* tm.eblock[level]
EBlock ==
    \E l \in Coords :
        Called(get_eblock(tm, Live(mem), l), [op |-> "eblock", level |-> l])

\* tm.flatten(order)
Flatten ==
    /\ Idle
    /\ \E o \in Orders :
           \E r \in {flatten(tm, Live(mem), o)} :
               Called(r, [op |-> "flatten", order |-> o])

\* tm[start, end] = value; the caller keeps the object the last call returned
SetItem ==
    /\ (Idle /\ writes < MaxWrites) \/ Holding
    /\ \E s \in Coords, e \in Coords, x \in {NewVal} :
        LET r == setitem(tm, mem, Scalar(s), Scalar(e), x)
        IN /\ mem' = r.mem
           /\ exc' = r.exc
           /\ call' = [op |-> "setitem", start |-> s, end |-> e, value |-> x,
                       from |-> Origin]
           /\ writes' = writes + 1
           /\ UNCHANGED <<tm, res>>

\* tm[starts, end] = value for an index array starts, by a caller that holds no
\* array or container from an earlier call
SetItems ==
    /\ writes < MaxWrites
    /\ Idle
    /\ \E s1 \in Coords, s2 \in Coords, e \in Coords, x \in {NewVal} :
        LET r == setitem(tm, mem, Array(<<s1, s2>>), Scalar(e), x)
        IN /\ mem' = r.mem
           /\ exc' = r.exc
           /\ call' = [op |-> "setitems", starts |-> <<s1, s2>>, ends |-> <<e, e>>,
                       value |-> x, from |-> Origin]
           /\ writes' = writes + 1
           /\ UNCHANGED <<tm, res>>

\* a[k] = value on the array a the last call returned (k a position of a.flat)
ArrayWrite ==
    /\ Holding
    /\ res.kind = "array"
    /\ \E k \in 0..(Len(res.arr.idx) - 1), x \in {NewVal} :
        /\ mem' = Store(mem, res.arr.buf, <<res.arr.idx[k + 1]>>, <<x>>)
        /\ exc' = NoExc
        /\ call' = [op |-> "array_write", pos |-> k, value |-> x, from |-> Origin]
        /\ writes' = writes + 1
        /\ UNCHANGED <<tm, res>>

\* t[start, end] = value on the container t the last call returned
SubSetItem ==
    /\ Holding
    /\ res.kind = "tmap"
    /\ \E s \in -1..(res.tmap.n + 1), e \in -1..(res.tmap.n + 1), x \in {NewVal} :
        LET r == setitem(res.tmap, mem, Scalar(s), Scalar(e), x)
        IN /\ mem' = r.mem
           /\ exc' = r.exc
           /\ call' = [op |-> "sub_setitem", start |-> s, end |-> e, value |-> x,
                       from |-> Origin]
           /\ writes' = writes + 1
           /\ UNCHANGED <<tm, res>>

\* tm.sblock[level] = V for a grid V of new values of the shape of the block, by
\* a caller that holds no array or container from an earlier call
SetSBlock ==
    /\ writes < MaxWrites
    /\ Idle
    /\ \E l \in 1..tm.n :
          LET V == [r \in 1..l |-> [c \in 1..(tm.n - l + 1) |-> NewVal + 10 * r + c]]
          IN \E r \in {set_sblock(tm, mem, l, V)} :
                /\ mem' = r.mem
                /\ exc' = r.exc
                /\ call' = [op |-> "set_sblock", level |-> l, value |-> V, from |-> Origin]
                /\ writes' = writes + 1
                /\ UNCHANGED <<tm, res>>

\* t.copy() on the container t that tm.top(depth) returned: a view of the
\* container's buffer; the caller keeps the copy
SubCopy ==
    /\ Holding
    /\ call.op = "top"
    /\ \E r \in {copy(res.tmap, Live(mem))} :
          /\ mem' = r.mem
          /\ res' = r.res
          /\ exc' = r.exc
          /\ call' = [op |-> "sub_copy", from |-> Origin]
          /\ UNCHANGED <<tm, writes>>

Next ==
    \/ Construct
    \/ GetItem
    \/ GetItems
    \/ GetSlice
    \/ Copy
    \/ Top
    \/ LSlice
    \/ DSlice
    \/ SSlice
    \/ ESlice
    \/ SBlock
    \/ EBlock
    \/ Flatten
    \/ SetItem
    \/ SetItems
    \/ ArrayWrite
    \/ SubSetItem
    \/ SubCopy
    \/ SetSBlock

Spec == Init /\ [][Next]_vars

\* tm[start, end] = value by a caller that only sets and reads elements: one more
\* set of a sequence; call.from is the call before it
SetItemAgain ==
    /\ writes < MaxSets
    /\ Idle
    /\ \E s \in Coords, e \in Coords, x \in {NewVal} :
          \E r \in {setitem(tm, mem, Scalar(s), Scalar(e), x)} :
             /\ mem' = r.mem
             /\ exc' = r.exc
             /\ call' = [op |-> "setitem", start |-> s, end |-> e, value |-> x,
                         from |-> call]
             /\ writes' = writes + 1
             /\ UNCHANGED <<tm, res>>

\* sequences of sets, and the reads of an element after them
SetGetNext ==
    \/ SetItemAgain
    \/ GetItem

SetGetSpec == Init /\ [][SetGetNext]_vars

\* the container wraps np.arange(N * PayloadLen).reshape(N, PayloadLen): its
\* elements have value_shape (PayloadLen,)
PayloadInit ==
    /\ \E w \in 0..MaxWidth, lb \in BOOLEAN :
          LET N == size1d_from_n(w)
              c == TMapInit(NdArray(1, arange(0, N), <<N, PayloadLen>>), lb)
          IN /\ c.exc = NoExc
             /\ tm = c.tmap
             /\ mem = <<[i \in 1..N |-> arange((i - 1) * PayloadLen, i * PayloadLen)]>>
    /\ res = NoRes
    /\ exc = NoExc
    /\ call = [op |-> "init"]
    /\ writes = 0

\* reads that gather or flatten the elements
PayloadNext ==
    \/ LSlice
    \/ SSlice
    \/ ESlice
    \/ Flatten

PayloadSpec == PayloadInit /\ [][PayloadNext]_vars

\* ---------------------------------------------------------------- claims
\* the valid spans of a container of width n
Spans(n) == {p \in (0..n) \X (0..n) : p[1] < p[2]}

\* n (n + 1) / 2
Triangular(n) == (n * (n + 1)) \div 2

\* tm[s, e] for a valid span, read from the heap m
Elem(t, m, s, e) == getitem(t, m, Scalar(s), Scalar(e)).res.val

\* the row (depth) of linear index i: the largest d with d (d + 1) / 2 <= i
DecodeDepth(i) == CHOOSE d \in 0..i : Triangular(d) <= i /\ i < Triangular(d + 1)

\* the span of linear index i: its offset in the row is its start
DecodeSpan(n, i) ==
    LET d == DecodeDepth(i)
        off == i - Triangular(d)
    IN <<off, off + (n - d)>>

\* C1: on the valid spans of the container, linear_from_start_end is a bijection
\* onto 0 .. N-1 with N = n (n + 1) / 2: the indices of the spans are exactly
\* 0 .. N-1 (in range, every index hit), there are as many indices as spans (no
\* two spans share one), and decoding an index to (depth, offset), then to
\* (start, end), and encoding it again gives the index back.
C1_LinearIndexBijection ==
    LET n == tm.n
        N == Triangular(n)
        indices == {linear_from_start_end(tm, p[1], p[2]) : p \in Spans(n)}
    IN /\ indices = 0..(N - 1)
       /\ Cardinality(indices) = Cardinality(Spans(n))
       /\ \A i \in 0..(N - 1) :
             /\ DecodeSpan(n, i) \in Spans(n)
             /\ linear_from_start_end(tm, DecodeSpan(n, i)[1], DecodeSpan(n, i)[2]) = i

\* C1 witness: an element of the widest container was read through its linear index
C1_Witness ==
    /\ tm.n = MaxWidth
    /\ call.op = "getitem"
    /\ exc = NoExc
    /\ res.val = linear_from_start_end(tm, call.start, call.end)

\* the level a level-slice or depth-slice call asked for
LevelOf(c) == IF c.op = "lslice" THEN c.level ELSE level(tm, c.depth)

ViewOps == {"lslice", "dslice"}

CopyOps == {"sslice", "eslice", "sblock", "eblock", "getslice"}

\* C2, views: a write through the array of lslice / dslice is the container's
\* element at the same (start, end), and a write to the container shows in the array
C2_ViewsAlias ==
    /\ (call.op = "array_write" /\ call.from.op \in ViewOps)
          => Elem(tm, mem, call.pos, call.pos + LevelOf(call.from)) = call.value
    /\ (call.op = "setitem" /\ exc = NoExc /\ call.from.op \in ViewOps
           /\ call.end - call.start = LevelOf(call.from))
          => Content(mem, res.arr)[call.start + 1] = call.value

\* C2, copies: a write into the result of sslice, eslice, sblock, eblock or a
\* sub-window lands in the result and changes no element of the container
C2_CopiesOwnStorage ==
    (call'.op \in {"array_write", "sub_setitem"} /\ call'.from.op \in CopyOps)
       => /\ mem'[tm.arr.buf] = mem[tm.arr.buf]
          /\ call'.op = "array_write" => Content(mem', res.arr)[call'.pos + 1] = call'.value

\* C2: view-vs-copy aliasing of the slices.
C2_ViewVsCopy == []C2_ViewsAlias /\ [][C2_CopiesOwnStorage]_vars

\* C2 witness: an element was written through a depth-slice of two or more elements
C2_Witness ==
    /\ call.op = "array_write"
    /\ call.from.op = "dslice"
    /\ Len(res.arr.idx) >= 2
    /\ call.pos >= 1

\* C3: for 1 <= level <= n, lslice(level) and dslice(n - level) are the buffer
\* range linear_index(0, level) .. linear_index(n - level, n), whose k-th entry is
\* tm[k, k + level]; for n = 3 the bottom row is positions 3, 4, 5 and dslice(0) is
\* position 0.
C3_LevelSliceRange ==
    (call.op \in ViewOps /\ LevelOf(call) \in 1..tm.n)
       => LET l == LevelOf(call)
              lo == linear_from_start_end(tm, 0, l)
              hi == linear_from_start_end(tm, tm.n - l, tm.n)
          IN /\ exc = NoExc
             /\ res.kind = "array"
             /\ res.arr.buf = tm.arr.buf
             /\ res.arr.idx = [k \in 1..(hi - lo + 1) |-> tm.arr.idx[lo + k]]
             /\ hi - lo + 1 = tm.n - l + 1
             /\ \A k \in 0..(tm.n - l) :
                   /\ Content(mem, res.arr)[k + 1] = Elem(tm, mem, k, k + l)
                   /\ res.arr.idx[k + 1] = linear_from_start_end(tm, k, k + l)
             /\ (tm.n = 3 /\ l = 1) => res.arr.idx = <<3, 4, 5>>
             /\ (tm.n = 3 /\ l = 3) => res.arr.idx = <<0>>

\* C3 witness: the bottom row of a container of width 3
C3_Witness ==
    /\ call.op = "lslice"
    /\ tm.n = 3
    /\ call.level = 1
    /\ Content(mem, res.arr) = <<3, 4, 5>>

\* whether a top call asked for d levels
TopOf(c, d) == c.op = "top" /\ c.depth = Some(d)

\* C4 (as amended): for 0 <= depth <= n, top(depth) is a new container of width
\* depth around the buffer's prefix of depth (depth + 1) / 2 elements (rows
\* 0 .. depth-1); it shares the buffer: a write through either shows in the other.
C4_TopIsPrefixView ==
    \A d \in 0..tm.n :
       /\ TopOf(call, d) =>
             /\ exc = NoExc
             /\ res.kind = "tmap"
             /\ res.tmap.n = d
             /\ res.tmap.linearise_blocks = tm.linearise_blocks
             /\ res.tmap.arr.buf = tm.arr.buf
             /\ res.tmap.arr.idx = [k \in 1..Triangular(d) |-> tm.arr.idx[k]]
             /\ \A p \in Spans(d) :
                   Elem(res.tmap, mem, p[1], p[2]) = Elem(tm, mem, p[1], p[2] + (tm.n - d))
       /\ (call.op = "sub_setitem" /\ exc = NoExc /\ TopOf(call.from, d))
             => Elem(tm, mem, call.start, call.end + (tm.n - d)) = call.value
       /\ (call.op = "setitem" /\ exc = NoExc /\ TopOf(call.from, d)
              /\ depth(tm, call.start, call.end) < d)
             => Elem(res.tmap, mem, call.start, call.end - (tm.n - d)) = call.value

\* C4 witness: an element was written through top(2) of a container of width 3
C4_Witness ==
    /\ tm.n = 3
    /\ call.op = "sub_setitem"
    /\ exc = NoExc
    /\ TopOf(call.from, 2)
    /\ Content(mem, tm.arr) # arange(0, 6)

\* C4 as claimed: for 0 <= depth <= n-1, top(depth) holds rows 0 .. depth, that is
\* (depth + 1) (depth + 2) / 2 elements, in a view of the buffer.
C4_Original ==
    \A d \in 0..(tm.n - 1) :
       TopOf(call, d) =>
          /\ res.kind = "tmap"
          /\ res.tmap.arr.buf = tm.arr.buf
          /\ Len(res.tmap.arr.idx) = Triangular(d + 1)

\* C5 (as amended): the spans of depth d are start = 0 .. d with end = start + n - d;
\* they are valid and map to consecutive linear indices.
C5_RowIsConsecutive ==
    \A d \in 0..(tm.n - 1) :
       /\ \A s \in 0..d :
             /\ ~check_raises(tm, Scalar(s), Scalar(s + tm.n - d))
             /\ depth(tm, s, s + tm.n - d) = d
             /\ s < d => linear_from_start_end(tm, s + 1, s + 1 + tm.n - d)
                            = linear_from_start_end(tm, s, s + tm.n - d) + 1
       /\ \A p \in Spans(tm.n) : depth(tm, p[1], p[2]) = d => p[1] \in 0..d

\* C5 witness: the bottom row of a container of width 3 was sliced by depth
C5_Witness ==
    /\ tm.n = 3
    /\ call.op = "dslice"
    /\ call.depth = 2
    /\ res.arr.idx = <<3, 4, 5>>

\* C5 as claimed: the pairs of depth d with start = 0 .. n-d-1 are valid spans
\* with consecutive linear indices.
C5_Original ==
    \A d \in 0..(tm.n - 1) :
       \A s \in 0..(tm.n - d - 1) :
          /\ ~check_raises(tm, Scalar(s), Scalar(s + tm.n - d))
          /\ s < tm.n - d - 1 => linear_from_start_end(tm, s + 1, s + 1 + tm.n - d)
                                    = linear_from_start_end(tm, s, s + tm.n - d) + 1

\* C6: TMap(arr) succeeds exactly when len(arr) = n (n + 1) / 2 for some n >= 0,
\* with that n as its width; otherwise it raises ValueError and returns nothing;
\* and n_from_size1d(size1d_from_n(n)) = n.
C6_WidthFromSize ==
    /\ call.op = "TMap" =>
          /\ exc = NoExc <=> \E n \in 0..call.N : call.N = Triangular(n)
          /\ exc = NoExc => /\ res.kind = "tmap"
                            /\ call.N = Triangular(res.tmap.n)
                            /\ PyLen(res.tmap.arr) = call.N
          /\ exc # NoExc => exc = "ValueError" /\ res = NoRes
          /\ call.N = 5 => exc = "ValueError"
    /\ \A n \in 0..(tm.n + 1) :
          n_from_size1d(size1d_from_n(n)) = [exc |-> NoExc, n |-> n]

\* C6 witness: a buffer of length 5 was refused
C6_Witness == call.op = "TMap" /\ call.N = 5 /\ exc = "ValueError" /\ res = NoRes

\* the spans a get or set call named, and the width of the container it was made on
CallSpans(c) ==
    IF c.op \in {"getitems", "setitems"}
    THEN {<<c.starts[i], c.ends[i]>> : i \in 1..Len(c.starts)}
    ELSE {<<c.start, c.end>>}

CallWidth(c) == IF c.op = "sub_setitem" THEN res.tmap.n ELSE tm.n

ItemOps == {"getitem", "getitems", "setitem", "setitems", "sub_setitem"}

\* C7, validation: get and set raise IndexError exactly when some pair named
\* violates 0 <= start < end <= n
C7_Validation ==
    call.op \in ItemOps =>
       /\ exc \in {NoExc, "IndexError"}
       /\ exc = "IndexError" <=>
             \E p \in CallSpans(call) : ~(0 <= p[1] /\ p[1] < p[2] /\ p[2] <= CallWidth(call))

\* C7, no partial write: a set that raises leaves every buffer as it was
C7_FailedSetWritesNothing ==
    (call'.op \in {"setitem", "setitems", "sub_setitem"} /\ exc' # NoExc) => mem' = mem

C8_SubMapContent ==
    (call.op = "getslice" /\ call.step = None /\ <<call.start, call.end>> \in Spans(tm.n))
       => /\ exc = NoExc
          /\ res.kind = "tmap"
          /\ res.tmap.n = call.end - call.start
          /\ res.tmap.arr.buf # tm.arr.buf
          /\ \A p \in Spans(call.end - call.start) :
                Elem(res.tmap, mem, p[1], p[2])
                   = Elem(tm, mem, call.start + p[1], call.start + p[2])

\* C8, frame: the call leaves the original buffer unchanged
C8_SubMapFrame == call'.op = "getslice" => mem'[tm.arr.buf] = mem[tm.arr.buf]

\* C8: a window without step gives an independent sub-map of the right content.
C8_SubMap == []C8_SubMapContent /\ [][C8_SubMapFrame]_vars

\* C8 witness: the window 1:3 of a container of width 3
C8_Witness ==
    /\ tm.n = 3
    /\ call.op = "getslice"
    /\ call.step = None
    /\ call.start = 1
    /\ call.end = 3
    /\ res.kind = "tmap"
    /\ Content(mem, res.tmap.arr) = <<2, 4, 5>>

\* C9 as claimed: tm[start:end:step] returns a new container with a buffer of its
\* own for every window 0 <= start < end <= n and every step >= 1.
C9_SteppedWindowReturns ==
    (call.op = "getslice" /\ call.step # None /\ <<call.start, call.end>> \in Spans(tm.n))
       => /\ exc = NoExc
          /\ res.kind = "tmap"
          /\ res.tmap.arr.buf # tm.arr.buf

\* C10 as claimed: flatten("+s+e") returns a sequence of length n (n + 1) / 2 for
\* every width n >= 0.
C10_FlattenLength ==
    (call.op = "flatten" /\ call.order = <<"+", "s", "+", "e">>)
       => /\ exc = NoExc
          /\ res.kind = "array"
          /\ Len(res.arr.idx) = Triangular(tm.n)

\* the order strings of the form [sign]axis[sign]axis
OrderForms == {a \o b \o c \o d : a \in Signs, b \in Dims, c \in Signs, d \in Dims}

\* the (outer, inner) axis letters of an order string of that form
AxisPair(order) == SelectSeq(order, LAMBDA ch : <<ch>> \in Dims)

\* the permitted (outer, inner) pairs
PermittedPairs == {<<"s", "e">>, <<"e", "s">>, <<"l", "s">>}

\* the orders flatten is to accept, and those it is to reject
PermittedOrders == {o \in OrderForms : AxisPair(o) \in PermittedPairs}

\* C11 as claimed: flatten(order) raises the invalid-order error (ValueError in the
\* source) exactly when the order is not of the form [sign]axis[sign]axis or its
\* axis pair is not (s,e), (e,s) or (l,s), for every width; a rejected order
\* returns nothing and the buffer is unchanged.
C11_InvalidOrderRaises ==
    call.op = "flatten" =>
       /\ exc = "ValueError" <=> call.order \notin PermittedOrders
       /\ call.order \notin PermittedOrders =>
             /\ res = NoRes
             /\ Content(mem, tm.arr) = arange(0, Triangular(tm.n))

\* the spans of the inner slice of outer value v, ascending: the ends v+1 .. n of
\* start v, the starts 0 .. v-1 of end v, or the starts 0 .. n-v of level v
InnerSpans(n, axis, v) ==
    IF axis = "s" THEN [k \in 1..(n - v) |-> <<v, v + k>>]
    ELSE IF axis = "e" THEN [k \in 1..v |-> <<k - 1, v>>]
    ELSE [k \in 1..(n - v + 1) |-> <<k - 1, k - 1 + v>>]

\* the spans of the two nested loops of an order, in the order they are visited
NestedLoop(n, order) ==
    LET axis == AxisPair(order)[1]
        outer == IF axis = "s" THEN arange(0, n) ELSE arange(1, n + 1)
        signed == IF order[1] = "-" THEN Reverse(outer) ELSE outer
        Visit(v) == IF order[Len(order) - 1] = "-" THEN Reverse(InnerSpans(n, axis, v))
                    ELSE InnerSpans(n, axis, v)
    IN Concat([k \in 1..Len(signed) |-> Visit(signed[k])])

\* C12 as claimed: for n >= 1 and each permitted order, flatten(order) is the
\* sequence of the elements of the nested loops (outer axis ascending, or
\* descending for outer sign '-'; each inner slice ascending, or reversed for inner
\* sign '-'), so that each element of the buffer appears exactly once, and "-l+s"
\* is the buffer in linear-index order.
C12_FlattenNestedLoops ==
    (call.op = "flatten" /\ tm.n >= 1 /\ call.order \in PermittedOrders)
       => LET visited == NestedLoop(tm.n, call.order)
          IN /\ exc = NoExc
             /\ res.kind = "array"
             /\ Content(mem, res.arr)
                   = [k \in 1..Len(visited) |-> Elem(tm, mem, visited[k][1], visited[k][2])]
             /\ {visited[k] : k \in 1..Len(visited)} = Spans(tm.n)
             /\ Len(visited) = Triangular(tm.n)
             /\ call.order = <<"-", "l", "+", "s">>
                   => Content(mem, res.arr) = Content(mem, tm.arr)

\* the container a copy was made of: tm, or the view tm.top(depth) returned
CopySource(c) ==
    IF c.op = "copy" THEN tm ELSE top(tm, Live(mem), c.from.depth).res.tmap

CopyCalls == {"copy", "sub_copy"}

\* C13, result: a copy has the width, the linearise_blocks flag, the value_shape
\* and the element values of its source, in a buffer of its own
C13_CopyEqualsSource ==
    (call.op \in CopyCalls /\ exc = NoExc)
       => /\ res.kind = "tmap"
          /\ res.tmap.n = CopySource(call).n
          /\ res.tmap.linearise_blocks = CopySource(call).linearise_blocks
          /\ res.tmap.value_shape = CopySource(call).value_shape
          /\ Content(mem, res.tmap.arr) = Content(mem, CopySource(call).arr)
          /\ res.tmap.arr.buf # CopySource(call).arr.buf

\* C13, independence: copying changes no element of the source; a set on the
\* copy changes no element of the original, and a set on the original changes no
\* element of the copy
C13_CopyIsIndependent ==
    /\ call'.op \in CopyCalls => mem'[tm.arr.buf] = mem[tm.arr.buf]
    /\ (call'.op = "sub_setitem" /\ call'.from.op \in CopyCalls)
          => /\ mem'[tm.arr.buf] = mem[tm.arr.buf]
             /\ exc' = NoExc => Elem(res.tmap, mem', call'.start, call'.end) = call'.value
    /\ (call'.op = "setitem" /\ call'.from.op \in CopyCalls)
          => /\ Content(mem', res.tmap.arr) = Content(mem, res.tmap.arr)
             /\ exc' = NoExc => Elem(tm, mem', call'.start, call'.end) = call'.value

\* C13: copy() gives an equal container that owns its buffer, also for a source
\* that is a view obtained from top(depth).
C13_CopyOwnsBuffer == []C13_CopyEqualsSource /\ [][C13_CopyIsIndependent]_vars

\* C13 witness: an element was set in the copy of the view top(2) of a container
\* of width 3, and the original kept its elements
C13_Witness ==
    /\ tm.n = 3
    /\ call.op = "sub_setitem"
    /\ exc = NoExc
    /\ call.from.op = "sub_copy"
    /\ TopOf(call.from.from, 2)
    /\ Content(mem, tm.arr) = arange(0, 6)
    /\ Content(mem, res.tmap.arr) # arange(0, 3)

\* C14 as claimed: for 1 <= level <= n, sblock[level] is a grid of level rows and
\* n - level + 1 columns whose entry (r, c) is the element of span
\* (c, c + level - r); these spans are valid and pairwise distinct; and after
\* sblock[level] = V for a grid V, sblock[level] reads V, for both settings of
\* linearise_blocks.
C14_SBlockRoundTrip ==
    /\ (call.op = "sblock" /\ call.level \in 1..tm.n)
          => LET l == call.level
                 ncols == tm.n - l + 1
                 cells == (0..(l - 1)) \X (0..(ncols - 1))
             IN /\ exc = NoExc
                /\ res.kind = "array"
                /\ res.arr.shape = <<l, ncols>>
                /\ \A p \in cells :
                      /\ <<p[2], p[2] + l - p[1]>> \in Spans(tm.n)
                      /\ Content(mem, res.arr)[p[1] * ncols + p[2] + 1]
                            = Elem(tm, mem, p[2], p[2] + l - p[1])
                /\ Cardinality({<<p[2], p[2] + l - p[1]>> : p \in cells}) = l * ncols
    /\ call.op = "set_sblock"
          => /\ exc = NoExc
             /\ get_sblock(tm, Live(mem), call.level).exc = NoExc
             /\ LET back == get_sblock(tm, Live(mem), call.level)
                IN Content(back.mem, back.res.arr) = Concat(call.value)

\* the value the sequence of sets that ends with call c wrote last to span p, or
\* the initial value of p (the buffer was np.arange(N)) if none of them wrote to p
RECURSIVE LastWritten(_, _)
LastWritten(c, p) ==
    IF c.op # "setitem" THEN linear_from_start_end(tm, p[1], p[2])
    ELSE IF <<c.start, c.end>> = p THEN c.value
    ELSE LastWritten(c.from, p)

\* C15, read back: after a sequence of sets with valid spans, tm[s, e] is for
\* every valid span the value written last to that span, or its initial value
C15_LastWriteWins ==
    (call.op = "setitem" /\ exc = NoExc)
       => \A p \in Spans(tm.n) : Elem(tm, mem, p[1], p[2]) = LastWritten(call, p)

\* C15, frame: a set changes the cell linear_index(start, end) of the buffer and
\* nothing else: no other cell, not the width, not the length of the buffer
C15_SetWritesOneCell ==
    (call'.op = "setitem" /\ exc' = NoExc)
       => /\ tm' = tm
          /\ Len(mem'[tm.arr.buf]) = Len(mem[tm.arr.buf])
          /\ mem'[tm.arr.buf] =
                [mem[tm.arr.buf] EXCEPT
                    ![linear_from_start_end(tm, call'.start, call'.end) + 1] = call'.value]

\* C15: get returns what set wrote last to the span, and a set writes one cell.
C15_SetThenGet == []C15_LastWriteWins /\ [][C15_SetWritesOneCell]_vars

\* C15 witness: the second of two sets to one span of the widest container
\* replaced the value of the first, and another span kept its initial value
C15_Witness ==
    /\ tm.n = MaxWidth
    /\ call.op = "setitem"
    /\ exc = NoExc
    /\ call.from.op = "setitem"
    /\ <<call.from.start, call.from.end>> = <<call.start, call.end>>
    /\ call.from.value # call.value
    /\ Elem(tm, mem, call.start, call.end) = call.value
    /\ \E p \in Spans(tm.n) : Elem(tm, mem, p[1], p[2]) = linear_from_start_end(tm, p[1], p[2])

====
